---- MODULE Spec2Model ----
(***************************************************************************)
(* PlaceIntel Pro intelligence service (src/intelligence/app.py).          *)
(*                                                                         *)
(* Numbers are fixed point: one unit is 0.001, so 7.0 is 7000 and 0.95 is  *)
(* 950.  Text is TLA+ strings, on which Len, SubSeq and \o work character  *)
(* by character.  JSON values of a request are tagged records              *)
(* [t |-> tag, v |-> value], because the code's behaviour on a value       *)
(* depends on its Python type.  The dicts the engines return are records;  *)
(* dict.get(k, d) is Get(d, k, default).                                   *)
(*                                                                         *)
(* The per-result key processing_time_ms of the four engines is a wall     *)
(* clock measurement that no code reads; it is left out of the engines'    *)
(* result records.  The top-level processing_time_ms of the response is    *)
(* kept.                                                                   *)
(***************************************************************************)
EXTENDS Integers, Sequences, FiniteSets, TLC

VARIABLES
    pc,                      \* position of the handler / of the caller
    request,                 \* the HTTP request being served
    place_data,              \* the handler's local place_data
    fault,                   \* stage in which the environment raised, or "none"
    business_intel,          \* result of analyze_place
    realtime_context,        \* result of analyze_context
    accessibility_intel,     \* result of analyze_accessibility
    unified_recommendations, \* result of generate_recommendations
    response,                \* the HTTP response returned
    trace,                   \* engine calls made for the current request
    frame                    \* locals of the engine call that returned last:
                             \* the hour datetime.now() gave it, its draws

vars == <<pc, request, place_data, fault, business_intel,
          realtime_context, accessibility_intel, unified_recommendations,
          response, trace, frame>>

(***************************************************************************)
(* Bounds of the model.                                                    *)
(***************************************************************************)
\* random.uniform(a, b) is sampled at DrawSteps + 1 equidistant points of
\* [a, b], plus the points listed with each draw set
DrawSteps == 2
\* the measured total processing time is one of 0 .. MaxElapsed
MaxElapsed == 1

(***************************************************************************)
(* Python values                                                           *)
(***************************************************************************)
\* a variable that holds nothing yet
Unset == [unset |-> TRUE]

Null == [t |-> "null"]
Bool(b) == [t |-> "bool", v |-> b]
Str(s) == [t |-> "str", v |-> s]
\* a JSON number without fraction or exponent, an int
Num(n) == [t |-> "num", v |-> n]
Arr(a) == [t |-> "arr", v |-> a]
Obj(d) == [t |-> "obj", v |-> d]
\* the empty dict {}
EmptyDict == <<>>

\* bool(x) of a JSON value: None, False, "", 0, [] and {} are falsy
Truthy(j) ==
    CASE j.t = "null" -> FALSE
      [] j.t = "bool" -> j.v
      [] j.t = "str" -> j.v # ""
      [] j.t = "num" -> j.v # 0
      [] j.t = "arr" -> Len(j.v) > 0
      [] j.t = "obj" -> DOMAIN j.v # {}

\* type(x).__name__ of a JSON value
TypeName(j) ==
    CASE j.t = "null" -> "NoneType"
      [] j.t = "bool" -> "bool"
      [] j.t = "str" -> "str"
      [] j.t = "num" -> "int"
      [] j.t = "arr" -> "list"
      [] j.t = "obj" -> "dict"

\* the outcome of an evaluation that may raise; message is str(e)
NoError == [raised |-> FALSE]
Raised(message) == [raised |-> TRUE, message |-> message]

\* str(e) of the AttributeError of x.attr
NoAttribute(j, attr) ==
    "'" \o TypeName(j) \o "' object has no attribute '" \o attr \o "'"

\* d.get(k, default) of a dict
Get(d, k, default) == IF k \in DOMAIN d THEN d[k] ELSE default

\* j.get(k, default) of a JSON object
JGet(j, k, default) == Get(j.v, k, default)

(***************************************************************************)
(* Strings                                                                 *)
(***************************************************************************)
\* sub in s
Contains(s, sub) ==
    \E i \in 1..(Len(s) - Len(sub) + 1) : SubSeq(s, i, i + Len(sub) - 1) = sub

\* Case mapping of str.lower() and str.title(), written out for the
\* characters U+0000 to U+00FF (Basic Latin and Latin-1 Supplement), the
\* characters the strings given to them are made of.
\* <<c, c.lower()>> for every character that c.lower() changes
LowerPairs ==
    {<<"A", "a">>, <<"B", "b">>, <<"C", "c">>, <<"D", "d">>, <<"E", "e">>,
     <<"F", "f">>, <<"G", "g">>, <<"H", "h">>, <<"I", "i">>, <<"J", "j">>,
     <<"K", "k">>, <<"L", "l">>, <<"M", "m">>, <<"N", "n">>, <<"O", "o">>,
     <<"P", "p">>, <<"Q", "q">>, <<"R", "r">>, <<"S", "s">>, <<"T", "t">>,
     <<"U", "u">>, <<"V", "v">>, <<"W", "w">>, <<"X", "x">>, <<"Y", "y">>,
     <<"Z", "z">>, <<"À", "à">>, <<"Á", "á">>, <<"Â", "â">>, <<"Ã", "ã">>,
     <<"Ä", "ä">>, <<"Å", "å">>, <<"Æ", "æ">>, <<"Ç", "ç">>, <<"È", "è">>,
     <<"É", "é">>, <<"Ê", "ê">>, <<"Ë", "ë">>, <<"Ì", "ì">>, <<"Í", "í">>,
     <<"Î", "î">>, <<"Ï", "ï">>, <<"Ð", "ð">>, <<"Ñ", "ñ">>, <<"Ò", "ò">>,
     <<"Ó", "ó">>, <<"Ô", "ô">>, <<"Õ", "õ">>, <<"Ö", "ö">>, <<"Ø", "ø">>,
     <<"Ù", "ù">>, <<"Ú", "ú">>, <<"Û", "û">>, <<"Ü", "ü">>, <<"Ý", "ý">>,
     <<"Þ", "þ">>}

\* <<c, c.title()>> for every character that c.title() changes, but for
\* U+00FF (y with diaeresis): its title case is U+0178, a character that
\* cannot be written in a string of this module (see NoTitleChar)
TitlePairs ==
    {<<"a", "A">>, <<"b", "B">>, <<"c", "C">>, <<"d", "D">>, <<"e", "E">>,
     <<"f", "F">>, <<"g", "G">>, <<"h", "H">>, <<"i", "I">>, <<"j", "J">>,
     <<"k", "K">>, <<"l", "L">>, <<"m", "M">>, <<"n", "N">>, <<"o", "O">>,
     <<"p", "P">>, <<"q", "Q">>, <<"r", "R">>, <<"s", "S">>, <<"t", "T">>,
     <<"u", "U">>, <<"v", "V">>, <<"w", "W">>, <<"x", "X">>, <<"y", "Y">>,
     <<"z", "Z">>, <<"ß", "Ss">>, <<"à", "À">>, <<"á", "Á">>, <<"â", "Â">>,
     <<"ã", "Ã">>, <<"ä", "Ä">>, <<"å", "Å">>, <<"æ", "Æ">>, <<"ç", "Ç">>,
     <<"è", "È">>, <<"é", "É">>, <<"ê", "Ê">>, <<"ë", "Ë">>, <<"ì", "Ì">>,
     <<"í", "Í">>, <<"î", "Î">>, <<"ï", "Ï">>, <<"ð", "Ð">>, <<"ñ", "Ñ">>,
     <<"ò", "Ò">>, <<"ó", "Ó">>, <<"ô", "Ô">>, <<"õ", "Õ">>, <<"ö", "Ö">>,
     <<"ø", "Ø">>, <<"ù", "Ù">>, <<"ú", "Ú">>, <<"û", "Û">>, <<"ü", "Ü">>,
     <<"ý", "Ý">>, <<"þ", "Þ">>, <<"µ", "Μ">>}

\* the characters whose title case no string of this module can hold;
\* TitleChar, and so Title, has no value on them
NoTitleChar == {"ÿ"}

\* the cased characters: those after which str.title() lower-cases
CasedChars ==
    {"A", "B", "C", "D", "E", "F", "G", "H", "I", "J", "K", "L", "M", "N",
     "O", "P", "Q", "R", "S", "T", "U", "V", "W", "X", "Y", "Z", "a", "b",
     "c", "d", "e", "f", "g", "h", "i", "j", "k", "l", "m", "n", "o", "p",
     "q", "r", "s", "t", "u", "v", "w", "x", "y", "z", "ª", "µ", "º", "À",
     "Á", "Â", "Ã", "Ä", "Å", "Æ", "Ç", "È", "É", "Ê", "Ë", "Ì", "Í", "Î",
     "Ï", "Ð", "Ñ", "Ò", "Ó", "Ô", "Õ", "Ö", "Ø", "Ù", "Ú", "Û", "Ü", "Ý",
     "Þ", "ß", "à", "á", "â", "ã", "ä", "å", "æ", "ç", "è", "é", "ê", "ë",
     "ì", "í", "î", "ï", "ð", "ñ", "ò", "ó", "ô", "õ", "ö", "ø", "ù", "ú",
     "û", "ü", "ý", "þ", "ÿ"}

\* the characters str.split() splits on (str.isspace)
WhiteSpace ==
    {"\t", "\n", "", "\f", "\r", "", "", "", "", " ", "", " "}

LowerMap ==
    [c \in {p[1] : p \in LowerPairs} |-> (CHOOSE p \in LowerPairs : p[1] = c)[2]]

TitleMap ==
    [c \in {p[1] : p \in TitlePairs} |-> (CHOOSE p \in TitlePairs : p[1] = c)[2]]

\* c.lower() of one character
LowerChar(c) == IF c \in DOMAIN LowerMap THEN LowerMap[c] ELSE c

\* c.title() of one character; no value for a character of NoTitleChar
TitleChar(c) ==
    CASE c \in DOMAIN TitleMap -> TitleMap[c]
      [] c \notin DOMAIN TitleMap \cup NoTitleChar -> c

IsCased(c) == c \in CasedChars

\* s.lower()
RECURSIVE Lower(_)
Lower(s) ==
    IF Len(s) = 0 THEN ""
    ELSE LowerChar(SubSeq(s, 1, 1)) \o Lower(SubSeq(s, 2, Len(s)))

\* s.title(): a character that follows a cased character is lower-cased,
\* every other character title-cased
RECURSIVE TitleFrom(_, _)
TitleFrom(s, afterCased) ==
    IF Len(s) = 0 THEN ""
    ELSE LET c == SubSeq(s, 1, 1)
         IN (IF afterCased THEN LowerChar(c) ELSE TitleChar(c))
              \o TitleFrom(SubSeq(s, 2, Len(s)), IsCased(c))

Title(s) == TitleFrom(s, FALSE)

\* len(s.split()): the number of maximal runs of characters that are not
\* white space
WordCount(s) ==
    Cardinality({i \in 1..Len(s) :
        /\ SubSeq(s, i, i) \notin WhiteSpace
        /\ (i = 1 \/ SubSeq(s, i - 1, i - 1) \in WhiteSpace)})

\* sep.join(seq)
RECURSIVE Join(_, _)
Join(sep, seq) ==
    IF Len(seq) = 0 THEN ""
    ELSE IF Len(seq) = 1 THEN seq[1]
    ELSE seq[1] \o sep \o Join(sep, Tail(seq))

\* seq[:n]
Take(seq, n) == SubSeq(seq, 1, IF Len(seq) < n THEN Len(seq) ELSE n)

\* str(x) of a float x with at most one decimal, as an f-string prints it
FormatFloat(x) == ToString(x \div 1000) \o "." \o ToString((x % 1000) \div 100)

(***************************************************************************)
(* Numbers                                                                 *)
(***************************************************************************)
Min(a, b) == IF a < b THEN a ELSE b
Max(a, b) == IF a > b THEN a ELSE b

\* round(x, 1).  A value exactly half way between two tenths is rounded by
\* Python according to the binary representation of the float, which the
\* decimal value does not determine: both neighbours are possible results.
Round1(x) ==
    LET q == x \div 100
        r == x % 100
    IN IF r < 50 THEN {q * 100}
       ELSE IF r > 50 THEN {(q + 1) * 100}
       ELSE {q * 100, (q + 1) * 100}

\* round(x, 2), with the same treatment of exact halves
Round2(x) ==
    LET q == x \div 10
        r == x % 10
    IN IF r < 5 THEN {q * 10}
       ELSE IF r > 5 THEN {(q + 1) * 10}
       ELSE {q * 10, (q + 1) * 10}

\* sample points of random.uniform(lo, hi)
Uniform(lo, hi) == {lo + ((hi - lo) * i) \div DrawSteps : i \in 0..DrawSteps}

\* random.choice([True, False])
CoinFlip == {TRUE, FALSE}

\* datetime.now().hour
Hours == 0..23

(***************************************************************************)
(* Shared reading of the request's place                                   *)
(***************************************************************************)
\* place_data.get('name', '')
PlaceName(place) == JGet(place, "name", Str(""))

\* place_data.get('categories', [])
PlaceCategories(place) == JGet(place, "categories", Arr(<<>>))

\* categories[0].get('name', '').lower()
FirstCategoryName(categories) ==
    Lower(JGet(categories.v[1], "name", Str("")).v)

\* what `if not categories: ...` followed by
\* categories[0].get('name', '').lower() raises: a dict has no key 0
\* (KeyError, str(e) is '0'), a number is not subscriptable (TypeError),
\* the first element (of a string: its first character) is not a dict, or
\* that dict's name is not a string (AttributeError)
CategoryNameError(categories) ==
    IF ~Truthy(categories) THEN NoError
    ELSE IF categories.t = "obj" THEN Raised("0")
    ELSE IF categories.t \in {"num", "bool"}
      THEN Raised("'" \o TypeName(categories) \o "' object is not subscriptable")
    ELSE LET first == IF categories.t = "str"
                      THEN Str(SubSeq(categories.v, 1, 1))
                      ELSE categories.v[1]
         IN IF first.t # "obj" THEN Raised(NoAttribute(first, "get"))
            ELSE IF JGet(first, "name", Str("")).t # "str"
              THEN Raised(NoAttribute(JGet(first, "name", Str("")), "lower"))
            ELSE NoError

CategoryNameRaises(categories) == CategoryNameError(categories).raised

(***************************************************************************)
(* BusinessIntelligenceEngine                                              *)
(***************************************************************************)
Brands == {"starbucks", "mcdonalds", "subway"}
PositiveWords == {"best", "premium", "artisan", "fresh", "quality", "authentic"}
NegativeWords == {"cheap", "fast", "quick"}

\* self.category_insights.get(category, {})
CategoryInsights(category) ==
    CASE category = "coffee" ->
           [specialties |-> <<"artisanal coffee", "espresso", "latte art">>,
            ideal_for |-> <<"remote work", "meetings", "studying">>,
            atmosphere |-> "cozy", price_range |-> "moderate"]
      [] category = "restaurant" ->
           [specialties |-> <<"local cuisine", "fresh ingredients">>,
            ideal_for |-> <<"dining", "celebrations", "dates">>,
            atmosphere |-> "welcoming", price_range |-> "varied"]
      [] category = "gym" ->
           [specialties |-> <<"fitness equipment", "personal training">>,
            ideal_for |-> <<"workouts", "fitness classes", "health">>,
            atmosphere |-> "energetic", price_range |-> "membership"]
      [] category = "library" ->
           [specialties |-> <<"study spaces", "books", "quiet environment">>,
            ideal_for |-> <<"studying", "research", "reading">>,
            atmosphere |-> "quiet", price_range |-> "free"]
      [] category = "shopping" ->
           [specialties |-> <<"retail", "variety", "brands">>,
            ideal_for |-> <<"shopping", "browsing", "gifts">>,
            atmosphere |-> "busy", price_range |-> "varied"]
      [] OTHER -> EmptyDict

\* a plausible slip: the shop/store test moved to the front of the chain
GetPrimaryCategoryShopFirst(categories) ==
    IF ~Truthy(categories) THEN "general"
    ELSE LET category_name == FirstCategoryName(categories)
         IN IF Contains(category_name, "shop") \/ Contains(category_name, "store")
              THEN "shopping"
            ELSE IF Contains(category_name, "coffee") \/ Contains(category_name, "café")
              THEN "coffee"
            ELSE IF Contains(category_name, "restaurant") \/ Contains(category_name, "food")
              THEN "restaurant"
            ELSE IF Contains(category_name, "gym") \/ Contains(category_name, "fitness")
              THEN "gym"
            ELSE IF Contains(category_name, "library") THEN "library"
            ELSE "general"

\* BusinessIntelligenceEngine._get_primary_category
GetPrimaryCategory(categories) ==
    IF ~Truthy(categories) THEN "general"
    ELSE LET category_name == FirstCategoryName(categories)
         IN IF Contains(category_name, "coffee") \/ Contains(category_name, "café")
              THEN "coffee"
            ELSE IF Contains(category_name, "restaurant") \/ Contains(category_name, "food")
              THEN "restaurant"
            ELSE IF Contains(category_name, "gym") \/ Contains(category_name, "fitness")
              THEN "gym"
            ELSE IF Contains(category_name, "library") THEN "library"
            ELSE IF Contains(category_name, "shop") \/ Contains(category_name, "store")
              THEN "shopping"
            ELSE "general"

\* a plausible slip: the long-name bonus tested with if instead of elif
PopularityBaseLongNameToo(name, categories) ==
    LET name_lower == Lower(name.v)
        brand == (IF \E b \in Brands : Contains(name_lower, b) THEN 2000 ELSE 0)
                 + (IF WordCount(name.v) > 3 THEN 1000 ELSE 0)
        cat == IF Truthy(categories)
               THEN LET category_name == FirstCategoryName(categories)
                    IN IF Contains(category_name, "coffee") THEN 1500
                       ELSE IF Contains(category_name, "restaurant") THEN 1000
                       ELSE 0
               ELSE 0
    IN 5000 + brand + cat

\* the score before the random term and the clamp
PopularityBase(name, categories) ==
    LET name_lower == Lower(name.v)
        brand == IF \E b \in Brands : Contains(name_lower, b) THEN 2000
                 ELSE IF WordCount(name.v) > 3 THEN 1000
                 ELSE 0
        cat == IF Truthy(categories)
               THEN LET category_name == FirstCategoryName(categories)
                    IN IF Contains(category_name, "coffee") THEN 1500
                       ELSE IF Contains(category_name, "restaurant") THEN 1000
                       ELSE 0
               ELSE 0
    IN 5000 + brand + cat

\* a plausible slip: the final clamp left out
CalculatePopularityScoreNoClamp(name, categories, r) ==
    PopularityBase(name, categories) + r

\* BusinessIntelligenceEngine._calculate_popularity_score; r is the value
\* of random.uniform(-1.0, 2.0)
CalculatePopularityScore(name, categories, r) ==
    Max(1000, Min(10000, PopularityBase(name, categories) + r))

\* category_sentiment.get(category, 3.5)
CategorySentiment(category) ==
    CASE category = "coffee" -> 4000
      [] category = "restaurant" -> 3800
      [] category = "library" -> 4200
      [] category = "gym" -> 3500
      [] category = "shopping" -> 3600
      [] OTHER -> 3500

\* BusinessIntelligenceEngine._analyze_sentiment; r is the value of
\* random.uniform(-0.5, 0.5)
AnalyzeSentiment(name, category, r) ==
    LET name_lower == Lower(name.v)
        pos == Cardinality({w \in PositiveWords : Contains(name_lower, w)})
        neg == Cardinality({w \in NegativeWords : Contains(name_lower, w)})
        sentiment == 3500 + 500 * pos - 300 * neg
        averaged == (sentiment + CategorySentiment(category)) \div 2
    IN Max(1000, Min(5000, averaged + r))

\* trending_categories.get(category, 5.0)
TrendingBase(category) ==
    CASE category = "coffee" -> 8500
      [] category = "gym" -> 7800
      [] category = "restaurant" -> 7000
      [] category = "library" -> 6000
      [] category = "shopping" -> 6500
      [] OTHER -> 5000

\* BusinessIntelligenceEngine._calculate_trending_score
CalculateTrendingScore(category, hour) ==
    LET bonus == IF 7 <= hour /\ hour <= 9 /\ category = "coffee" THEN 1000
                 ELSE IF 12 <= hour /\ hour <= 14 /\ category = "restaurant" THEN 1000
                 ELSE IF 18 <= hour /\ hour <= 20 /\ category = "restaurant" THEN 1000
                 ELSE 0
    IN Max(0, Min(10000, TrendingBase(category) + bonus))

\* what analyze_place raises: the first category cannot be read
\* (_get_primary_category), or the name is not a string (name.lower() in
\* _calculate_popularity_score)
AnalyzePlaceError(place) ==
    IF CategoryNameRaises(PlaceCategories(place))
      THEN CategoryNameError(PlaceCategories(place))
    ELSE IF PlaceName(place).t # "str"
      THEN Raised(NoAttribute(PlaceName(place), "lower"))
    ELSE NoError

AnalyzePlaceRaises(place) == AnalyzePlaceError(place).raised

\* a plausible slip: the descriptive fields looked up under the raw label
\* of the first category instead of the mapped category
BusinessDescriptionRawLabel(categories) ==
    CategoryInsights(IF Truthy(categories) THEN FirstCategoryName(categories)
                     ELSE "general")

\* category_info of analyze_place: the table entry of the mapped category
BusinessDescription(categories) ==
    CategoryInsights(GetPrimaryCategory(categories))

\* BusinessIntelligenceEngine.analyze_place: the results it can return when
\* the clock reads hour and the two random.uniform calls return r_pop, r_sent
AnalyzePlace(place, hour, r_pop, r_sent) ==
    LET name == PlaceName(place)
        categories == PlaceCategories(place)
        primary_category == GetPrimaryCategory(categories)
        popularity_score == CalculatePopularityScore(name, categories, r_pop)
        sentiment_score == AnalyzeSentiment(name, primary_category, r_sent)
        category_info == BusinessDescription(categories)
        trending_score == CalculateTrendingScore(primary_category, hour)
    IN {[popularity_score |-> p,
         sentiment_score |-> s,
         specialties |-> Get(category_info, "specialties", <<>>),
         ideal_for |-> Get(category_info, "ideal_for", <<>>),
         price_range |-> Get(category_info, "price_range", "unknown"),
         atmosphere |-> Get(category_info, "atmosphere", "unknown"),
         trending_score |-> t] :
           p \in Round1(popularity_score),
           s \in Round1(sentiment_score),
           t \in Round1(trending_score)}

PopDraws == Uniform(-1000, 2000) \cup {470}
SentDraws == Uniform(-500, 500) \cup {120}

(***************************************************************************)
(* RealTimeContextEngine                                                   *)
(***************************************************************************)
\* RealTimeContextEngine._get_primary_category: the raw lower-cased label
ContextPrimaryCategory(categories) ==
    IF ~Truthy(categories) THEN "general" ELSE FirstCategoryName(categories)

\* RealTimeContextEngine._determine_status
DetermineStatus(category, hour) ==
    LET open(lo, hi) == IF lo <= hour /\ hour <= hi THEN "open" ELSE "closed"
    IN IF Contains(category, "restaurant") THEN open(6, 23)
       ELSE IF Contains(category, "coffee") THEN open(6, 20)
       ELSE IF Contains(category, "gym") THEN open(5, 23)
       ELSE IF Contains(category, "library") THEN open(8, 20)
       ELSE open(9, 21)

CrowdLevels == {"quiet", "moderate", "busy"}

\* RealTimeContextEngine._estimate_crowd_level: the levels it can return;
\* the last branch is random.choice(['quiet', 'moderate', 'busy'])
EstimateCrowdLevel(category, hour) ==
    LET level(busy, moderate) ==
            IF hour \in busy THEN {"busy"}
            ELSE IF hour \in moderate THEN {"moderate"}
            ELSE {"quiet"}
    IN IF Contains(category, "restaurant")
         THEN level({12, 13, 18, 19, 20}, {11, 14, 17, 21})
       ELSE IF Contains(category, "coffee")
         THEN level({7, 8, 9, 14, 15}, {10, 11, 16, 17})
       ELSE IF Contains(category, "gym")
         THEN level({6, 7, 17, 18, 19}, {8, 9, 16, 20})
       ELSE CrowdLevels

\* a plausible slip: no times for a category outside the four known ones
SuggestBestTimesNoDefault(category) ==
    IF Contains(category, "restaurant")
      THEN <<"11:30-12:00", "14:30-17:00", "21:00-22:00">>
    ELSE IF Contains(category, "coffee") THEN <<"10:00-11:30", "15:30-17:00">>
    ELSE IF Contains(category, "gym") THEN <<"10:00-16:00", "21:00-23:00">>
    ELSE IF Contains(category, "library") THEN <<"9:00-11:00", "14:00-16:00">>
    ELSE <<>>

\* RealTimeContextEngine._suggest_best_times
SuggestBestTimes(category) ==
    IF Contains(category, "restaurant")
      THEN <<"11:30-12:00", "14:30-17:00", "21:00-22:00">>
    ELSE IF Contains(category, "coffee") THEN <<"10:00-11:30", "15:30-17:00">>
    ELSE IF Contains(category, "gym") THEN <<"10:00-16:00", "21:00-23:00">>
    ELSE IF Contains(category, "library") THEN <<"9:00-11:00", "14:00-16:00">>
    ELSE <<"10:00-12:00", "14:00-16:00">>

\* RealTimeContextEngine._detect_events
DetectEvents(category, hour) ==
    IF Contains(category, "library") /\ 14 <= hour /\ hour <= 16
      THEN <<"study group session">>
    ELSE IF Contains(category, "gym") /\ hour \in {18, 19}
      THEN <<"fitness class">>
    ELSE IF Contains(category, "coffee") /\ hour \in {15, 16}
      THEN <<"afternoon networking">>
    ELSE <<>>

\* RealTimeContextEngine._estimate_wait_time
EstimateWaitTime(crowd_level) ==
    IF crowd_level = "busy" THEN "10-15 minutes"
    ELSE IF crowd_level = "moderate" THEN "5-10 minutes"
    ELSE "no wait"

Weathers == {"sunny", "rainy", "cloudy"}

\* RealTimeContextEngine._assess_weather_impact; current_weather is the
\* value of random.choice(weather_conditions)
AssessWeatherImpact(category, current_weather) ==
    IF current_weather = "rainy" /\ Contains(category, "outdoor")
      THEN "high impact - indoor alternatives recommended"
    ELSE IF current_weather = "sunny" /\ Contains(category, "park")
      THEN "positive impact - great weather for outdoor activities"
    ELSE "minimal impact"

\* analyze_context raises: the first category cannot be read
AnalyzeContextError(place) == CategoryNameError(PlaceCategories(place))

AnalyzeContextRaises(place) == AnalyzeContextError(place).raised

\* RealTimeContextEngine.analyze_context: the results it can return when the
\* clock reads hour, the weather drawn is current_weather and
\* random.uniform(0.7, 0.95) returns r_conf.  The key last_updated, a time
\* stamp, is left out.
AnalyzeContext(place, hour, current_weather, r_conf) ==
    LET categories == PlaceCategories(place)
        primary_category == ContextPrimaryCategory(categories)
    IN {[current_status |-> DetermineStatus(primary_category, hour),
         crowd_level |-> crowd_level,
         best_visit_times |-> SuggestBestTimes(primary_category),
         live_events |-> DetectEvents(primary_category, hour),
         estimated_wait_time |-> EstimateWaitTime(crowd_level),
         weather_impact |-> AssessWeatherImpact(primary_category, current_weather),
         confidence_score |-> c] :
           crowd_level \in EstimateCrowdLevel(primary_category, hour),
           c \in Round2(r_conf)}

ConfDraws == Uniform(700, 950) \cup {704}

(***************************************************************************)
(* AccessibilityIntelligenceEngine                                         *)
(***************************************************************************)
ModernWords == {"new", "modern", "center", "mall"}

\* a plausible slip: the public-building bonus given to libraries only
AccessibilityBaseLibraryOnly(categories, name) ==
    LET category_name == FirstCategoryName(categories)
        name_lower == Lower(name.v)
        modern == IF \E w \in ModernWords : Contains(name_lower, w)
                  THEN 2000 ELSE 0
        cat == IF Contains(category_name, "library") THEN 3000
               ELSE IF Contains(category_name, "restaurant")
                       /\ Contains(name_lower, "chain") THEN 2000
               ELSE IF Contains(category_name, "gym") THEN 1500
               ELSE 0
    IN 5000 + modern + cat

\* the score before the random term and the clamp, categories not empty
AccessibilityBase(categories, name) ==
    LET category_name == FirstCategoryName(categories)
        name_lower == Lower(name.v)
        modern == IF \E w \in ModernWords : Contains(name_lower, w)
                  THEN 2000 ELSE 0
        cat == IF Contains(category_name, "library")
                  \/ Contains(category_name, "hospital") THEN 3000
               ELSE IF Contains(category_name, "restaurant")
                       /\ Contains(name_lower, "chain") THEN 2000
               ELSE IF Contains(category_name, "gym") THEN 1500
               ELSE 0
    IN 5000 + modern + cat

\* AccessibilityIntelligenceEngine._calculate_accessibility_score; r is the
\* value of random.uniform(-1.0, 1.0), which is drawn only when categories
\* is not empty
CalculateAccessibilityScore(categories, name, r) ==
    IF ~Truthy(categories) THEN 5000
    ELSE Max(0, Min(10000, AccessibilityBase(categories, name) + r))

\* AccessibilityIntelligenceEngine._default_features: the maps it can return
DefaultFeatures ==
    {[ramp_access |-> a, elevator |-> b, accessible_restrooms |-> c,
      braille_signage |-> FALSE, hearing_loop |-> FALSE,
      wide_entrances |-> d, accessible_parking |-> e] :
        a \in CoinFlip, b \in CoinFlip, c \in CoinFlip,
        d \in CoinFlip, e \in CoinFlip}

\* a plausible slip: the library branch falls through to the defaults
AnalyzeAccessibilityFeaturesNoLibrary(categories) ==
    DefaultFeatures

\* AccessibilityIntelligenceEngine._analyze_accessibility_features: the maps
\* it can return
AnalyzeAccessibilityFeatures(categories) ==
    IF ~Truthy(categories) THEN DefaultFeatures
    ELSE LET category_name == FirstCategoryName(categories)
         IN IF Contains(category_name, "library") THEN
              {[ramp_access |-> TRUE, elevator |-> TRUE,
                accessible_restrooms |-> TRUE, braille_signage |-> TRUE,
                hearing_loop |-> TRUE, wide_entrances |-> TRUE,
                accessible_parking |-> TRUE]}
            ELSE IF Contains(category_name, "restaurant") THEN
              {[ramp_access |-> a, elevator |-> FALSE,
                accessible_restrooms |-> c, braille_signage |-> FALSE,
                hearing_loop |-> FALSE, wide_entrances |-> d,
                accessible_parking |-> e] :
                  a \in CoinFlip, c \in CoinFlip, d \in CoinFlip, e \in CoinFlip}
            ELSE IF Contains(category_name, "gym") THEN
              {[ramp_access |-> TRUE, elevator |-> b,
                accessible_restrooms |-> TRUE, braille_signage |-> FALSE,
                hearing_loop |-> FALSE, wide_entrances |-> TRUE,
                accessible_parking |-> TRUE] : b \in CoinFlip}
            ELSE DefaultFeatures

\* AccessibilityIntelligenceEngine._generate_inclusive_recommendations
GenerateInclusiveRecommendations(categories, features) ==
    IF ~Truthy(categories)
    THEN [mobility_friendly_areas |-> <<>>, sensory_accommodations |-> <<>>,
          cognitive_support |-> <<>>]
    ELSE LET category_name == FirstCategoryName(categories)
             when(b, seq) == IF b THEN seq ELSE <<>>
         IN [mobility_friendly_areas |->
               when(Get(features, "ramp_access", FALSE),
                    <<"main entrance accessible">>)
               \o when(Get(features, "elevator", FALSE),
                       <<"all floors accessible">>)
               \o when(Get(features, "accessible_restrooms", FALSE),
                       <<"accessible restroom facilities">>),
             sensory_accommodations |->
               when(Contains(category_name, "library"),
                    <<"quiet study areas available",
                      "adjustable lighting in reading areas">>)
               \o when(Get(features, "hearing_loop", FALSE),
                       <<"hearing loop system available">>),
             cognitive_support |->
               IF Contains(category_name, "library")
                 THEN <<"clear signage and wayfinding",
                        "staff available for assistance">>
               ELSE IF Contains(category_name, "restaurant")
                 THEN <<"picture menus available">>
               ELSE <<>>]

\* analyze_accessibility raises: with categories not empty, the first
\* category cannot be read or the name is not a string
AnalyzeAccessibilityError(place) ==
    IF ~Truthy(PlaceCategories(place)) THEN NoError
    ELSE IF CategoryNameRaises(PlaceCategories(place))
      THEN CategoryNameError(PlaceCategories(place))
    ELSE IF PlaceName(place).t # "str"
      THEN Raised(NoAttribute(PlaceName(place), "lower"))
    ELSE NoError

AnalyzeAccessibilityRaises(place) == AnalyzeAccessibilityError(place).raised

\* AccessibilityIntelligenceEngine.analyze_accessibility: the results it can
\* return when random.uniform(-1.0, 1.0) returns r
AnalyzeAccessibility(place, r) ==
    LET categories == PlaceCategories(place)
        name == PlaceName(place)
        accessibility_score == CalculateAccessibilityScore(categories, name, r)
    IN {[wheelchair_accessible |-> accessibility_score >= 7000,
         accessibility_score |-> s,
         features |-> features,
         inclusive_recommendations |->
             GenerateInclusiveRecommendations(categories, features)] :
           s \in Round1(accessibility_score),
           features \in AnalyzeAccessibilityFeatures(categories)}

AccDraws == Uniform(-1000, 1000) \cup {-30, 470}

(***************************************************************************)
(* UnifiedRecommendationEngine                                             *)
(***************************************************************************)
\* the list scores of _calculate_confidence_score
ConfidenceWeights(business, context, accessibility) ==
    (IF Get(business, "popularity_score", 0) > 0 THEN <<800>> ELSE <<>>)
    \o (IF Get(context, "confidence_score", 0) > 0
        THEN <<context.confidence_score>> ELSE <<>>)
    \o (IF Get(accessibility, "accessibility_score", 0) > 0 THEN <<700>> ELSE <<>>)

RECURSIVE SeqSum(_)
SeqSum(seq) == IF Len(seq) = 0 THEN 0 ELSE Head(seq) + SeqSum(Tail(seq))

\* a plausible slip: the sum always divided by the three sources
CalculateConfidenceScoreFixedDivisor(business, context, accessibility) ==
    LET scores == ConfidenceWeights(business, context, accessibility)
    IN IF Len(scores) > 0 THEN [num |-> SeqSum(scores), den |-> 3]
       ELSE [num |-> 500, den |-> 1]

\* UnifiedRecommendationEngine._calculate_confidence_score: the quotient
\* sum(scores) / len(scores), kept exact as numerator and denominator
CalculateConfidenceScore(business, context, accessibility) ==
    LET scores == ConfidenceWeights(business, context, accessibility)
    IN IF Len(scores) > 0 THEN [num |-> SeqSum(scores), den |-> Len(scores)]
       ELSE [num |-> 500, den |-> 1]

\* round(num / den, 2), exact halves as in Round2
RoundQuotient2(num, den) ==
    LET q == num \div (10 * den)
        r == num % (10 * den)
    IN IF 2 * r < 10 * den THEN {q * 10}
       ELSE IF 2 * r > 10 * den THEN {(q + 1) * 10}
       ELSE {q * 10, (q + 1) * 10}

\* a plausible slip: the accessibility check made before the crowd check
GeneratePersonalizedInsightsReordered(place, business, context, accessibility) ==
    LET popularity == Get(business, "popularity_score", 0)
        crowd_level == Get(context, "crowd_level", "")
        atmosphere == Get(business, "atmosphere", "")
        ideal_for == Get(business, "ideal_for", <<>>)
        insights ==
          (IF popularity >= 8000
             THEN <<"Highly popular destination with "
                      \o FormatFloat(popularity) \o "/10 rating">>
           ELSE IF popularity >= 6000
             THEN <<"Well-regarded place with "
                      \o FormatFloat(popularity) \o "/10 popularity">>
           ELSE <<>>)
          \o (IF Get(accessibility, "wheelchair_accessible", FALSE)
                THEN <<"Fully wheelchair accessible with comprehensive features">>
              ELSE <<>>)
          \o (IF crowd_level = "quiet"
                THEN <<"Currently quiet - perfect for a peaceful visit">>
              ELSE IF crowd_level = "busy"
                THEN <<"Currently busy - consider visiting during suggested off-peak times">>
              ELSE <<>>)
          \o (IF atmosphere # "" /\ Len(ideal_for) > 0
                THEN <<Title(atmosphere) \o " atmosphere, ideal for "
                         \o Join(", ", ideal_for)>>
              ELSE <<>>)
    IN Take(insights, 4)

\* UnifiedRecommendationEngine._generate_personalized_insights
GeneratePersonalizedInsights(place, business, context, accessibility) ==
    LET popularity == Get(business, "popularity_score", 0)
        crowd_level == Get(context, "crowd_level", "")
        atmosphere == Get(business, "atmosphere", "")
        ideal_for == Get(business, "ideal_for", <<>>)
        insights ==
          (IF popularity >= 8000
             THEN <<"Highly popular destination with "
                      \o FormatFloat(popularity) \o "/10 rating">>
           ELSE IF popularity >= 6000
             THEN <<"Well-regarded place with "
                      \o FormatFloat(popularity) \o "/10 popularity">>
           ELSE <<>>)
          \o (IF crowd_level = "quiet"
                THEN <<"Currently quiet - perfect for a peaceful visit">>
              ELSE IF crowd_level = "busy"
                THEN <<"Currently busy - consider visiting during suggested off-peak times">>
              ELSE <<>>)
          \o (IF Get(accessibility, "wheelchair_accessible", FALSE)
                THEN <<"Fully wheelchair accessible with comprehensive features">>
              ELSE <<>>)
          \o (IF atmosphere # "" /\ Len(ideal_for) > 0
                THEN <<Title(atmosphere) \o " atmosphere, ideal for "
                         \o Join(", ", ideal_for)>>
              ELSE <<>>)
    IN Take(insights, 4)

\* UnifiedRecommendationEngine._suggest_alternatives
SuggestAlternatives(place, business) ==
    LET categories == PlaceCategories(place)
    IN IF ~Truthy(categories) THEN <<>>
       ELSE LET category_name == FirstCategoryName(categories)
                alternatives ==
                  IF Contains(category_name, "coffee") THEN
                    <<"Local independent coffee shops nearby",
                      "Tea houses for alternative beverages",
                      "Co-working spaces with café facilities">>
                  ELSE IF Contains(category_name, "restaurant") THEN
                    <<"Similar cuisine restaurants in the area",
                      "Food trucks for casual dining",
                      "Delivery options if crowded">>
                  ELSE IF Contains(category_name, "gym") THEN
                    <<"Outdoor fitness areas nearby",
                      "Alternative fitness studios",
                      "Home workout options during peak hours">>
                  ELSE <<>>
            IN Take(alternatives, 3)

\* UnifiedRecommendationEngine._create_visit_strategy
CreateVisitStrategy(context, accessibility) ==
    LET best_times == Get(context, "best_visit_times", <<>>)
        crowd_level == Get(context, "crowd_level", "")
        wait_time == Get(context, "estimated_wait_time", "")
        strategy_parts ==
          (IF Len(best_times) > 0
             THEN <<"Best visit times: " \o Join(", ", best_times)>> ELSE <<>>)
          \o (IF crowd_level = "busy" /\ wait_time # "no wait"
                THEN <<"Current wait time: " \o wait_time>> ELSE <<>>)
          \o (IF Get(accessibility, "wheelchair_accessible", FALSE)
                THEN <<"Accessible entrance available">> ELSE <<>>)
    IN IF Len(strategy_parts) > 0 THEN Join(". ", strategy_parts)
       ELSE "Visit anytime based on your preference"

NoteAccessible == "Wheelchair accessible with ramp access"
NoteCallAhead ==
    "Accessibility features may be limited - recommend calling ahead"
NoteRestroom == "Accessible restroom facilities available"
NoteHearingLoop == "Hearing loop system available for hearing aid users"

\* UnifiedRecommendationEngine._create_accessibility_notes
CreateAccessibilityNotes(accessibility) ==
    LET features == Get(accessibility, "features", EmptyDict)
        notes ==
          (IF Get(accessibility, "wheelchair_accessible", FALSE)
             THEN <<NoteAccessible>> ELSE <<NoteCallAhead>>)
          \o (IF Get(features, "accessible_restrooms", FALSE)
                THEN <<NoteRestroom>> ELSE <<>>)
          \o (IF Get(features, "hearing_loop", FALSE)
                THEN <<NoteHearingLoop>> ELSE <<>>)
    IN Take(notes, 3)

\* generate_recommendations raises: _suggest_alternatives cannot read the
\* first category
GenerateRecommendationsError(place) ==
    CategoryNameError(PlaceCategories(place))

GenerateRecommendationsRaises(place) == GenerateRecommendationsError(place).raised

\* UnifiedRecommendationEngine.generate_recommendations: the results it can
\* return
GenerateRecommendations(place, business, context, accessibility) ==
    LET confidence_score ==
            CalculateConfidenceScore(business, context, accessibility)
    IN {[confidence_score |-> c,
         personalized_insights |->
             GeneratePersonalizedInsights(place, business, context, accessibility),
         alternative_suggestions |-> SuggestAlternatives(place, business),
         optimal_visit_strategy |-> CreateVisitStrategy(context, accessibility),
         accessibility_notes |-> CreateAccessibilityNotes(accessibility)] :
           c \in RoundQuotient2(confidence_score.num, confidence_score.den)}

(***************************************************************************)
(* The endpoint POST /api/v1/intelligence/enhance                          *)
(***************************************************************************)
\* a request body of zero bytes
Absent == [t |-> "absent"]

Stages == <<"business", "context", "accessibility", "synthesis">>

DataSources == <<"foursquare", "ml_models", "accessibility_db", "real_time_feeds">>

\* str(e) of the exceptions request.get_json() raises
NotJsonContentType ==
    "Did not attempt to load JSON data because the request Content-Type"
    \o " was not 'application/json'."

BadRequestMessages ==
    {"400 Bad Request: The browser (or proxy) sent a request that this"
       \o " server could not understand.",
     "400 Bad Request: Failed to decode JSON object: Expecting value:"
       \o " line 1 column 1 (char 0)"}

\* request.get_json(): what Flask's call at the top of the handler can do.
\* A body that is not JSON (here: no bytes) under a JSON content type raises
\* BadRequest, whose description names the decoding error in debug mode.
\* A content type that is not JSON gives None in Flask before 2.1 and
\* raises from 2.1 on (BadRequest, later UnsupportedMediaType); the
\* repository pins no version.  Both exceptions derive from Exception.
GetJson(req) ==
    IF ~req.mimetype_json
      THEN {[raised |-> FALSE, value |-> Null],
            Raised("400 Bad Request: " \o NotJsonContentType),
            Raised("415 Unsupported Media Type: " \o NotJsonContentType)}
    ELSE IF req.body = Absent
      THEN {Raised(m) : m \in BadRequestMessages}
    ELSE {[raised |-> FALSE, value |-> req.body]}

\* a plausible slip: the handler answers with what it has computed so far
ExceptResponsePartial(message) ==
    [status |-> 200,
     body |-> [error |-> "Internal server error", message |-> message,
               business_intelligence |-> business_intel]]

\* the except clause of the handler
ExceptResponse(message) ==
    [status |-> 500,
     body |-> [error |-> "Internal server error", message |-> message]]

\* the two early returns of the handler
ErrorResponse(text) == [status |-> 400, body |-> [error |-> text]]

\* a plausible slip: two results stored under each other's key
SuccessResponseSwapped(business, context, accessibility, unified, elapsed) ==
    [status |-> 200,
     body |-> [business_intelligence |-> business,
               real_time_context |-> accessibility,
               accessibility_intelligence |-> context,
               unified_recommendations |-> unified,
               processing_time_ms |-> elapsed,
               data_sources |-> DataSources]]

\* the response dict of the handler, returned with jsonify
SuccessResponse(business, context, accessibility, unified, elapsed) ==
    [status |-> 200,
     body |-> [business_intelligence |-> business,
               real_time_context |-> context,
               accessibility_intelligence |-> accessibility,
               unified_recommendations |-> unified,
               processing_time_ms |-> elapsed,
               data_sources |-> DataSources]]

(***************************************************************************)
(* Inputs                                                                  *)
(***************************************************************************)
\* a categories array whose elements carry the given names
Cats(labels) == Arr([i \in 1..Len(labels) |-> Obj([name |-> Str(labels[i])])])

NameSamples ==
    {"", "Starbucks Downtown", "City Library",
     "Best Fresh Quality Premium Artisan Authentic Cafe",
     "Quick Cheap Fast Eats", "New Mall Chain Grill",
     "Subway Best Premium Fresh Shop",
     "New\tMall\tChain\tGrill"}

CategorySamples ==
    {Arr(<<>>), Cats(<<"Coffee Shop">>), Cats(<<"Café">>),
     Cats(<<"Restaurant">>), Cats(<<"fitness-restaurant-bar">>),
     Cats(<<"Gym", "Coffee Shop">>), Cats(<<"Library">>),
     Cats(<<"Hospital">>), Cats(<<"Book Store">>), Cats(<<"Outdoor Park">>),
     Cats(<<"Food Court">>), Cats(<<"Library Restaurant">>),
     Arr(<<Obj([id |-> Num(13032)])>>)}

\* places of the documented shape, given to the engines directly
Places ==
    {Obj([name |-> Str(n), categories |-> c]) :
        n \in NameSamples, c \in CategorySamples}
    \cup {Obj([name |-> Str("Starbucks Downtown")]),
          Obj([categories |-> Cats(<<"Library">>)]),
          Obj([location |-> Obj(EmptyDict)])}

\* places of the documented shape sent to the endpoint
EndpointPlaces ==
    {Obj([name |-> Str("City Library"), categories |-> Cats(<<"Library">>)]),
     Obj([name |-> Str("New Mall Chain Grill"), categories |-> Cats(<<"Library">>)]),
     Obj([name |-> Str("Starbucks Downtown"), categories |-> Cats(<<"Gym", "Coffee Shop">>)]),
     Obj([name |-> Str("Quick Cheap Fast Eats"), categories |-> Cats(<<"Restaurant">>)]),
     Obj([name |-> Str("Quick Cheap Fast Eats"), categories |-> Cats(<<"Hospital Gym">>)]),
     Obj([location |-> Obj(EmptyDict)])}

\* place values that are not of the documented shape
MalformedPlaces ==
    {Str("x"),
     Obj([name |-> Null]),
     Obj([name |-> Str("x"), categories |-> Str("abc")]),
     Obj([name |-> Str("x"), categories |-> Arr(<<Str("Cafe")>>)]),
     Obj([name |-> Str("x"), categories |-> Obj([a |-> Num(1)])]),
     Obj([name |-> Str("x"), categories |-> Num(5)])}

\* request bodies with no usable place
EmptyBodies ==
    {Absent, Null, Obj(EmptyDict), Obj([other |-> Num(1)]),
     Obj([place |-> Obj(EmptyDict)]), Obj([place |-> Null])}

Requests ==
    {[mimetype_json |-> TRUE, body |-> b] :
        b \in EmptyBodies \cup {Arr(<<Num(1)>>)}
              \cup {Obj([place |-> p]) : p \in EndpointPlaces \cup MalformedPlaces}}
    \cup {[mimetype_json |-> FALSE, body |-> b] :
        b \in {Absent, Obj([place |-> Obj([location |-> Obj(EmptyDict)])])}}

\* the hours analyze_place reads from the clock in the requests followed
EndpointHours == {1, 8, 14}

\* the draws of _analyze_sentiment and of analyze_context in the requests
\* followed: the two ends of each range
EndpointSentDraws == {-500, 500}
EndpointConfDraws == {700, 950}

(***************************************************************************)
(* The handler enhance_place_intelligence, one action per step             *)
(***************************************************************************)
Init ==
    /\ pc = "idle"
    /\ request = Unset
    /\ place_data = Unset
    /\ fault = "none"
    /\ business_intel = Unset
    /\ realtime_context = Unset
    /\ accessibility_intel = Unset
    /\ unified_recommendations = Unset
    /\ response = Unset
    /\ trace = <<>>
    /\ frame = Unset

\* a request arrives
Post ==
    /\ pc = "idle"
    /\ \E req \in Requests : request' = req
    /\ pc' = "parse"
    /\ UNCHANGED <<place_data, fault, business_intel, realtime_context,
                   accessibility_intel, unified_recommendations, response,
                   trace, frame>>

\* the handler returns response r
Return(r) ==
    /\ response' = r
    /\ pc' = "responded"

\* from request.get_json() to the logger.info call before the first engine
ParseRequest ==
    /\ pc = "parse"
    /\ \E o \in GetJson(request) :
         IF o.raised
           THEN Return(ExceptResponse(o.message)) /\ UNCHANGED place_data
         ELSE IF ~Truthy(o.value)
           THEN Return(ErrorResponse("No data provided")) /\ UNCHANGED place_data
         ELSE IF o.value.t # "obj"
           THEN /\ Return(ExceptResponse(NoAttribute(o.value, "get")))
                /\ UNCHANGED place_data
         ELSE LET place == JGet(o.value, "place", Obj(EmptyDict))
              IN IF ~Truthy(place)
                   THEN /\ Return(ErrorResponse("No place data provided"))
                        /\ place_data' = place
                 ELSE IF place.t # "obj"
                   THEN /\ Return(ExceptResponse(NoAttribute(place, "get")))
                        /\ place_data' = place
                 ELSE /\ place_data' = place
                      /\ pc' = "business"
                      /\ UNCHANGED response
    /\ UNCHANGED <<request, fault, business_intel, realtime_context,
                   accessibility_intel, unified_recommendations, trace, frame>>

\* the engine of a stage cannot read the place and raises
EngineRaises(stage) ==
    CASE stage = "business" -> AnalyzePlaceRaises(place_data)
      [] stage = "context" -> AnalyzeContextRaises(place_data)
      [] stage = "accessibility" -> AnalyzeAccessibilityRaises(place_data)
      [] stage = "synthesis" -> GenerateRecommendationsRaises(place_data)

\* the call of a stage has raised: the environment made it fail, or the
\* engine could not read the place
StageRaises(stage) == fault = stage \/ EngineRaises(stage)

\* what str(e) is when the call of a stage raises, the environment making
\* it fail when failed is TRUE
FailureMessage(stage, failed) ==
    IF failed THEN "failure raised by the environment"
    ELSE CASE stage = "business" -> AnalyzePlaceError(place_data).message
           [] stage = "context" -> AnalyzeContextError(place_data).message
           [] stage = "accessibility" ->
                AnalyzeAccessibilityError(place_data).message
           [] stage = "synthesis" ->
                GenerateRecommendationsError(place_data).message

\* the call of a stage raises and the handler's except clause answers; the
\* environment can make any call fail
Fails(stage) ==
    \E failed \in BOOLEAN :
        /\ failed \/ EngineRaises(stage)
        /\ fault' = IF failed THEN stage ELSE fault
        /\ Return(ExceptResponse(FailureMessage(stage, failed)))

\* business_engine.analyze_place(place_data)
BusinessStage ==
    /\ pc = "business"
    /\ trace' = Append(trace, "business")
    /\ \/ /\ Fails("business")
          /\ UNCHANGED <<business_intel, frame>>
       \/ /\ ~EngineRaises("business")
          /\ \E h \in EndpointHours, r_pop \in PopDraws,
                r_sent \in EndpointSentDraws :
               /\ business_intel' \in AnalyzePlace(place_data, h, r_pop, r_sent)
               /\ frame' = [call |-> "analyze_place", hour |-> h,
                            primary_category |->
                                GetPrimaryCategory(PlaceCategories(place_data)),
                            r_pop |-> r_pop, r_sent |-> r_sent]
          /\ pc' = "context"
          /\ UNCHANGED <<response, fault>>
    /\ UNCHANGED <<request, place_data, realtime_context,
                   accessibility_intel, unified_recommendations>>

\* realtime_engine.analyze_context(place_data).  The engine reads the local
\* wall clock anew (datetime.now().hour); the hour it gets is not bound to
\* the one analyze_place got: the clock can pass an hour boundary, jump at
\* a change of daylight saving time or be set between the two reads.
ContextStage ==
    /\ pc = "context"
    /\ trace' = Append(trace, "context")
    /\ \/ /\ Fails("context")
          /\ UNCHANGED <<realtime_context, frame>>
       \/ /\ ~EngineRaises("context")
          /\ \E h \in Hours, w \in Weathers, r_conf \in EndpointConfDraws :
               /\ realtime_context' \in AnalyzeContext(place_data, h, w, r_conf)
               /\ frame' = [call |-> "analyze_context", hour |-> h,
                            primary_category |->
                                ContextPrimaryCategory(PlaceCategories(place_data)),
                            current_weather |-> w, r_conf |-> r_conf]
          /\ pc' = "accessibility"
          /\ UNCHANGED <<response, fault>>
    /\ UNCHANGED <<request, place_data, business_intel,
                   accessibility_intel, unified_recommendations>>

\* the values random.uniform(-1.0, 1.0) can return in analyze_accessibility;
\* with no categories the call is not made, written as a draw of 0
AccDrawsFor(place) ==
    IF Truthy(PlaceCategories(place)) THEN AccDraws ELSE {0}

\* accessibility_engine.analyze_accessibility(place_data)
AccessibilityStage ==
    /\ pc = "accessibility"
    /\ trace' = Append(trace, "accessibility")
    /\ \/ /\ Fails("accessibility")
          /\ UNCHANGED <<accessibility_intel, frame>>
       \/ /\ ~EngineRaises("accessibility")
          /\ \E r \in AccDrawsFor(place_data) :
               /\ accessibility_intel' \in AnalyzeAccessibility(place_data, r)
               /\ frame' = [call |-> "analyze_accessibility", r |-> r,
                            accessibility_score |->
                                CalculateAccessibilityScore(
                                    PlaceCategories(place_data),
                                    PlaceName(place_data), r)]
          /\ pc' = "synthesis"
          /\ UNCHANGED <<response, fault>>
    /\ UNCHANGED <<request, place_data, business_intel,
                   realtime_context, unified_recommendations>>

\* recommendation_engine.generate_recommendations(place_data, business_intel,
\* realtime_context, accessibility_intel)
SynthesisStage ==
    /\ pc = "synthesis"
    /\ trace' = Append(trace, "synthesis")
    /\ \/ /\ Fails("synthesis")
          /\ UNCHANGED <<unified_recommendations, frame>>
       \/ /\ ~EngineRaises("synthesis")
          /\ unified_recommendations' \in
               GenerateRecommendations(place_data, business_intel,
                                       realtime_context, accessibility_intel)
          /\ frame' = [call |-> "generate_recommendations",
                       confidence_score |->
                           CalculateConfidenceScore(business_intel,
                               realtime_context, accessibility_intel),
                       business_intel |-> business_intel,
                       realtime_context |-> realtime_context,
                       accessibility_intel |-> accessibility_intel]
          /\ pc' = "assemble"
          /\ UNCHANGED <<response, fault>>
    /\ UNCHANGED <<request, place_data, business_intel,
                   realtime_context, accessibility_intel>>

\* the total time is measured and the response assembled and returned
AssembleResponse ==
    /\ pc = "assemble"
    /\ \E elapsed \in 0..MaxElapsed :
         Return(SuccessResponse(business_intel, realtime_context,
                                accessibility_intel, unified_recommendations,
                                elapsed))
    /\ UNCHANGED <<request, place_data, fault, business_intel,
                   realtime_context, accessibility_intel,
                   unified_recommendations, trace, frame>>

\* the response is sent; nothing of the request is kept
Done ==
    /\ pc = "responded"
    /\ pc' = "idle"
    /\ request' = Unset
    /\ place_data' = Unset
    /\ fault' = "none"
    /\ business_intel' = Unset
    /\ realtime_context' = Unset
    /\ accessibility_intel' = Unset
    /\ unified_recommendations' = Unset
    /\ response' = Unset
    /\ trace' = <<>>
    /\ frame' = Unset

Next ==
    \/ Post
    \/ ParseRequest
    \/ BusinessStage
    \/ ContextStage
    \/ AccessibilityStage
    \/ SynthesisStage
    \/ AssembleResponse
    \/ Done

Spec == Init /\ [][Next]_vars

(***************************************************************************)
(* The three analyzers called directly on a place                          *)
(***************************************************************************)
InitEngines ==
    /\ pc = "unit"
    /\ request = Unset
    /\ place_data \in Places
    /\ fault = "none"
    /\ business_intel = Unset
    /\ realtime_context = Unset
    /\ accessibility_intel = Unset
    /\ unified_recommendations = Unset
    /\ response = Unset
    /\ trace = <<>>
    /\ frame = Unset

CallAnalyzePlace ==
    /\ pc = "unit"
    /\ \E h \in Hours, r_pop \in PopDraws, r_sent \in SentDraws :
         /\ business_intel' \in AnalyzePlace(place_data, h, r_pop, r_sent)
         /\ frame' = [call |-> "analyze_place", hour |-> h,
                      primary_category |->
                          GetPrimaryCategory(PlaceCategories(place_data)),
                      r_pop |-> r_pop, r_sent |-> r_sent]
    /\ trace' = <<"business">>
    /\ pc' = "unit_done"
    /\ UNCHANGED <<request, place_data, fault, realtime_context,
                   accessibility_intel, unified_recommendations, response>>

CallAnalyzeContext ==
    /\ pc = "unit"
    /\ \E h \in Hours, w \in Weathers, r_conf \in ConfDraws :
         /\ realtime_context' \in AnalyzeContext(place_data, h, w, r_conf)
         /\ frame' = [call |-> "analyze_context", hour |-> h,
                      primary_category |->
                          ContextPrimaryCategory(PlaceCategories(place_data)),
                      current_weather |-> w, r_conf |-> r_conf]
    /\ trace' = <<"context">>
    /\ pc' = "unit_done"
    /\ UNCHANGED <<request, place_data, fault, business_intel,
                   accessibility_intel, unified_recommendations, response>>

CallAnalyzeAccessibility ==
    /\ pc = "unit"
    /\ \E r \in AccDrawsFor(place_data) :
         /\ accessibility_intel' \in AnalyzeAccessibility(place_data, r)
         /\ frame' = [call |-> "analyze_accessibility", r |-> r,
                      accessibility_score |->
                          CalculateAccessibilityScore(
                              PlaceCategories(place_data),
                              PlaceName(place_data), r)]
    /\ trace' = <<"accessibility">>
    /\ pc' = "unit_done"
    /\ UNCHANGED <<request, place_data, fault, business_intel,
                   realtime_context, unified_recommendations, response>>

NextEngines ==
    \/ CallAnalyzePlace
    \/ CallAnalyzeContext
    \/ CallAnalyzeAccessibility

SpecEngines == InitEngines /\ [][NextEngines]_vars

(***************************************************************************)
(* The synthesis engine called directly on analyzer results.  A result may *)
(* lack keys: every read of the engine is a dict.get with a default.       *)
(***************************************************************************)
BusinessResultSamples ==
    {[popularity_score |-> p, atmosphere |-> d.atmosphere, ideal_for |-> d.ideal_for] :
        p \in {1000, 5900, 6000, 7900, 8000, 10000},
        d \in {[atmosphere |-> "cozy",
                ideal_for |-> <<"remote work", "meetings", "studying">>],
               [atmosphere |-> "unknown", ideal_for |-> <<>>]}}
    \cup {[popularity_score |-> 0], EmptyDict}

ContextResultSamples ==
    {[crowd_level |-> c, estimated_wait_time |-> EstimateWaitTime(c),
      best_visit_times |-> b, confidence_score |-> k] :
        c \in CrowdLevels,
        b \in {<<"10:00-11:30", "15:30-17:00">>, <<>>},
        k \in {700, 950}}
    \cup {[confidence_score |-> 0], EmptyDict}

AccessibilityResultSamples ==
    {[wheelchair_accessible |-> w, accessibility_score |-> IF w THEN 7000 ELSE 6900,
      features |-> f] :
        w \in BOOLEAN,
        f \in {[accessible_restrooms |-> TRUE, hearing_loop |-> TRUE],
               [accessible_restrooms |-> TRUE, hearing_loop |-> FALSE],
               [accessible_restrooms |-> FALSE, hearing_loop |-> FALSE],
               EmptyDict}}
    \cup {[accessibility_score |-> 0], EmptyDict}

SynthesisPlaces ==
    {Obj([name |-> Str("Starbucks Downtown"), categories |-> Cats(<<"Coffee Shop">>)]),
     Obj([name |-> Str("New Mall Chain Grill"), categories |-> Cats(<<"Restaurant">>)]),
     Obj([name |-> Str("Quick Cheap Fast Eats"), categories |-> Cats(<<"Gym">>)]),
     Obj([name |-> Str("City Library"), categories |-> Cats(<<"Library">>)]),
     Obj([location |-> Obj(EmptyDict)])}

InitSynthesis ==
    /\ pc = "unit"
    /\ request = Unset
    /\ place_data \in SynthesisPlaces
    /\ fault = "none"
    /\ business_intel \in BusinessResultSamples
    /\ realtime_context \in ContextResultSamples
    /\ accessibility_intel \in AccessibilityResultSamples
    /\ unified_recommendations = Unset
    /\ response = Unset
    /\ trace = <<>>
    /\ frame = Unset

CallGenerateRecommendations ==
    /\ pc = "unit"
    /\ unified_recommendations' \in
         GenerateRecommendations(place_data, business_intel, realtime_context,
                                 accessibility_intel)
    /\ frame' = [call |-> "generate_recommendations",
                       confidence_score |->
                           CalculateConfidenceScore(business_intel,
                               realtime_context, accessibility_intel),
                 business_intel |-> business_intel,
                 realtime_context |-> realtime_context,
                 accessibility_intel |-> accessibility_intel]
    /\ trace' = <<"synthesis">>
    /\ pc' = "unit_done"
    /\ UNCHANGED <<request, place_data, fault, business_intel,
                   realtime_context, accessibility_intel, response>>

NextSynthesis == CallGenerateRecommendations

SpecSynthesis == InitSynthesis /\ [][NextSynthesis]_vars

(***************************************************************************)
(* Properties                                                              *)
(***************************************************************************)
\* the lower-cased name of the first category of a place with categories
PrimaryLabel(place) == FirstCategoryName(PlaceCategories(place))

HasCategories(place) == Truthy(PlaceCategories(place))

\* the last engine call was call
Called(call) == IF frame = Unset THEN FALSE ELSE frame.call = call

\* C1: every score an analyzer returns lies in its documented range after
\* rounding: popularity in [1, 10], sentiment in [1, 5], trending in
\* [0, 10], accessibility in [0, 10], context confidence in [0.7, 0.95].
C1_ScoresInRange ==
    /\ business_intel # Unset =>
         /\ 1000 <= business_intel.popularity_score
         /\ business_intel.popularity_score <= 10000
         /\ 1000 <= business_intel.sentiment_score
         /\ business_intel.sentiment_score <= 5000
         /\ 0 <= business_intel.trending_score
         /\ business_intel.trending_score <= 10000
    /\ realtime_context # Unset =>
         /\ 700 <= realtime_context.confidence_score
         /\ realtime_context.confidence_score <= 950
    /\ accessibility_intel # Unset =>
         /\ 0 <= accessibility_intel.accessibility_score
         /\ accessibility_intel.accessibility_score <= 10000

\* a popularity score that the clamp cut down to 10
C1_Witness ==
    /\ Called("analyze_place")
    /\ PopularityBase(PlaceName(place_data), PlaceCategories(place_data))
         + frame.r_pop > 10000
    /\ business_intel.popularity_score = 10000

\* C2 (as claimed): in every result of analyze_accessibility,
\* wheelchair_accessible is true exactly when the reported, rounded
\* accessibility_score is at least 7.0.
C2_WheelchairMatchesReportedScore ==
    accessibility_intel # Unset =>
        (accessibility_intel.wheelchair_accessible
           <=> accessibility_intel.accessibility_score >= 7000)

\* the requests C3 is about: no body, or a JSON body that is empty (null,
\* {}), lacks the place key or has an empty place
C3_NoPlaceRequest(req) ==
    IF req.body \in {Absent, Null} THEN TRUE
    ELSE IF req.body.t # "obj" THEN FALSE
    ELSE ~Truthy(JGet(req.body, "place", Obj(EmptyDict)))

\* C3 (as claimed): a request with no body or with no place is answered
\* with status 400 and an error field, and no stage is invoked.
C3_NoPlaceGives400 ==
    (pc = "responded" /\ C3_NoPlaceRequest(request)) =>
        /\ response.status = 400
        /\ "error" \in DOMAIN response.body
        /\ trace = <<>>

\* seq is the first n elements of Stages
IsStagePrefix(seq) ==
    /\ Len(seq) <= Len(Stages)
    /\ \A i \in 1..Len(seq) : seq[i] = Stages[i]

\* C4: when the call of a stage raises, whichever stage it is, the handler
\* stops there and returns status 500 with exactly the keys error and
\* message, error being 'Internal server error'; no result of a completed
\* stage is in the response, and every stage has been called at most once.
C4_StageFailureGives500 ==
    /\ IsStagePrefix(trace)
    /\ \A i \in 1..Len(trace) :
         StageRaises(trace[i]) =>
           /\ i = Len(trace)
           /\ pc = "responded"
           /\ response.status = 500
           /\ DOMAIN response.body = {"error", "message"}
           /\ response.body.error = "Internal server error"

\* the third stage fails after two stages have returned their results
C4_Witness ==
    /\ pc = "responded"
    /\ trace = <<"business", "context", "accessibility">>
    /\ StageRaises("accessibility")
    /\ business_intel # Unset
    /\ realtime_context # Unset
    /\ response.status = 500

\* a place of the documented shape: a non-empty object whose name, when
\* present, is a string and whose categories, when present, is an array of
\* objects whose name, when present, is a string
DocumentedPlace(p) ==
    IF p.t # "obj" THEN FALSE
    ELSE IF ~Truthy(p) THEN FALSE
    ELSE IF PlaceName(p).t # "str" THEN FALSE
    ELSE IF PlaceCategories(p).t # "arr" THEN FALSE
    ELSE \A i \in 1..Len(PlaceCategories(p).v) :
           IF PlaceCategories(p).v[i].t # "obj" THEN FALSE
           ELSE JGet(PlaceCategories(p).v[i], "name", Str("")).t = "str"

\* a JSON request that carries a place of the documented shape
DocumentedRequest(req) ==
    IF ~req.mimetype_json THEN FALSE
    ELSE IF req.body.t # "obj" THEN FALSE
    ELSE IF "place" \notin DOMAIN req.body.v THEN FALSE
    ELSE DocumentedPlace(req.body.v.place)

\* C5: a request with a place of the documented shape, served without a
\* failure of the environment, has each stage called once in the order
\* business, context, accessibility, synthesis; synthesis is called only
\* when the three analyzers have returned and with their three results;
\* the response has status 200 and carries the four results under their
\* keys, with processing_time_ms and the constant data_sources list.
C5_PipelineOrderAndResponse ==
    /\ (pc \in {"synthesis", "assemble"}) =>
         /\ business_intel # Unset
         /\ realtime_context # Unset
         /\ accessibility_intel # Unset
    /\ (pc = "assemble") =>
         /\ trace = Stages
         /\ Called("generate_recommendations")
         /\ frame.business_intel = business_intel
         /\ frame.realtime_context = realtime_context
         /\ frame.accessibility_intel = accessibility_intel
    /\ (pc = "responded" /\ fault = "none" /\ DocumentedRequest(request)) =>
         /\ trace = Stages
         /\ response.status = 200
         /\ DOMAIN response.body =
              {"business_intelligence", "real_time_context",
               "accessibility_intelligence", "unified_recommendations",
               "processing_time_ms", "data_sources"}
         /\ response.body.business_intelligence = business_intel
         /\ response.body.real_time_context = realtime_context
         /\ response.body.accessibility_intelligence = accessibility_intel
         /\ response.body.unified_recommendations = unified_recommendations
         /\ response.body.processing_time_ms \in 0..MaxElapsed
         /\ response.body.data_sources =
              <<"foursquare", "ml_models", "accessibility_db", "real_time_feeds">>

\* a documented request answered with 200 after the four stages
C5_Witness ==
    /\ pc = "responded"
    /\ fault = "none"
    /\ DocumentedRequest(request)
    /\ trace = Stages
    /\ response.status = 200

\* the classification as the claim words it: keyword sets in precedence
\* order, read against the first category's lower-cased name only
C6_KeywordSets ==
    <<[category |-> "coffee", keywords |-> {"coffee", "café"}],
      [category |-> "restaurant", keywords |-> {"restaurant", "food"}],
      [category |-> "gym", keywords |-> {"gym", "fitness"}],
      [category |-> "library", keywords |-> {"library"}],
      [category |-> "shopping", keywords |-> {"shop", "store"}]>>

C6_Expected(place) ==
    IF ~HasCategories(place) THEN "general"
    ELSE LET matching == {i \in 1..Len(C6_KeywordSets) :
                            \E k \in C6_KeywordSets[i].keywords :
                                Contains(PrimaryLabel(place), k)}
         IN IF matching = {} THEN "general"
            ELSE C6_KeywordSets[CHOOSE i \in matching :
                                  \A j \in matching : i <= j].category

\* C6: the category the Business analyzer works with is determined by the
\* first category's lower-cased name alone, whatever the later categories,
\* the name, the hour and the random draws: general for no categories,
\* else the first keyword set that matches in the order coffee,
\* restaurant, gym, library, shopping, else general.
C6_ClassifierByFirstLabel ==
    Called("analyze_place") =>
        frame.primary_category = C6_Expected(place_data)

\* a label matching the keyword sets of gym and of restaurant is classified
\* restaurant
C6_Witness ==
    /\ Called("analyze_place")
    /\ HasCategories(place_data)
    /\ PrimaryLabel(place_data) = "fitness-restaurant-bar"
    /\ frame.primary_category = "restaurant"

\* s starts with prefix
StartsWith(s, prefix) ==
    IF Len(s) < Len(prefix) THEN FALSE ELSE SubSeq(s, 1, Len(prefix)) = prefix

\* the check of _generate_personalized_insights a sentence comes from
C7_InsightRank(s) ==
    IF StartsWith(s, "Highly popular") \/ StartsWith(s, "Well-regarded") THEN 1
    ELSE IF StartsWith(s, "Currently") THEN 2
    ELSE IF StartsWith(s, "Fully wheelchair accessible") THEN 3
    ELSE 4

\* the check of _create_accessibility_notes a sentence comes from
C7_NoteRank(s) ==
    IF s \in {NoteAccessible, NoteCallAhead} THEN 1
    ELSE IF s = NoteRestroom THEN 2
    ELSE 3

\* C7: whatever the analyzer results, personalized_insights has at most 4
\* entries, alternative_suggestions at most 3 and accessibility_notes at
\* most 3, and the entries of insights and notes appear in the order of
\* the checks that produce them.
C7_ListCapsAndOrder ==
    unified_recommendations # Unset =>
        LET insights == unified_recommendations.personalized_insights
            notes == unified_recommendations.accessibility_notes
        IN /\ Len(insights) <= 4
           /\ Len(unified_recommendations.alternative_suggestions) <= 3
           /\ Len(notes) <= 3
           /\ \A i \in 1..Len(insights), j \in 1..Len(insights) :
                i < j => C7_InsightRank(insights[i]) < C7_InsightRank(insights[j])
           /\ \A i \in 1..Len(notes), j \in 1..Len(notes) :
                i < j => C7_NoteRank(notes[i]) < C7_NoteRank(notes[j])

\* all three lists are full
C7_Witness ==
    /\ unified_recommendations # Unset
    /\ Len(unified_recommendations.personalized_insights) = 4
    /\ Len(unified_recommendations.alternative_suggestions) = 3
    /\ Len(unified_recommendations.accessibility_notes) = 3

\* a place whose name contains a brand keyword and whose first category's
\* name contains 'coffee'
C8_BrandedCoffee(place) ==
    IF ~HasCategories(place) THEN FALSE
    ELSE /\ \E b \in {"starbucks", "mcdonalds", "subway"} :
              Contains(Lower(PlaceName(place).v), b)
         /\ Contains(PrimaryLabel(place), "coffee")

\* C8: for a branded place with a coffee label the Business analyzer works
\* with category coffee, returns atmosphere 'cozy' and returns as
\* popularity_score the value clamp(5.0 + 2.0 + 1.5 + r, 1, 10) rounded to
\* one decimal, r being the random draw; the long-name bonus is not added.
C8_BrandedCoffeeScore ==
    (Called("analyze_place") /\ C8_BrandedCoffee(place_data)) =>
        /\ frame.primary_category = "coffee"
        /\ business_intel.atmosphere = "cozy"
        /\ business_intel.popularity_score \in
             Round1(Max(1000, Min(10000, 5000 + 2000 + 1500 + frame.r_pop)))

\* a branded coffee place with a name of more than three words, and a draw
\* that the clamp leaves alone
C8_Witness ==
    /\ Called("analyze_place")
    /\ C8_BrandedCoffee(place_data)
    /\ WordCount(PlaceName(place_data).v) > 3
    /\ frame.r_pop = 470
    /\ business_intel.popularity_score = 9000

\* C9: the four descriptive fields of the Business result are the table
\* entry of the mapped category; for the category general, which an empty
\* categories sequence always maps to, they are 'unknown', 'unknown' and
\* two empty lists.
C9_DescriptiveFields ==
    Called("analyze_place") =>
        LET category == frame.primary_category
            described == [f \in {"specialties", "ideal_for", "price_range",
                                 "atmosphere"} |-> business_intel[f]]
        IN /\ ~HasCategories(place_data) => category = "general"
           /\ category = "general" =>
                described = [specialties |-> <<>>, ideal_for |-> <<>>,
                             price_range |-> "unknown", atmosphere |-> "unknown"]
           /\ category # "general" => described = CategoryInsights(category)

\* a place with an empty categories sequence and a name
C9_Witness ==
    /\ Called("analyze_place")
    /\ ~HasCategories(place_data)
    /\ PlaceName(place_data).v = "Starbucks Downtown"
    /\ business_intel.price_range = "unknown"
    /\ business_intel.specialties = <<>>

\* the place being served has a first category whose name contains 'library'
C10_LibraryPlace ==
    IF accessibility_intel = Unset THEN FALSE
    ELSE IF ~HasCategories(place_data) THEN FALSE
    ELSE Contains(PrimaryLabel(place_data), "library")

\* C10: for a place whose primary label contains 'library' all seven
\* accessibility features are true, and the accessibility_notes that
\* synthesis builds from that result are one of the two opening sentences
\* followed by the accessible-restroom and the hearing-loop sentence.
C10_LibraryFeaturesAndNotes ==
    C10_LibraryPlace =>
        /\ DOMAIN accessibility_intel.features =
             {"ramp_access", "elevator", "accessible_restrooms",
              "braille_signage", "hearing_loop", "wide_entrances",
              "accessible_parking"}
        /\ \A f \in DOMAIN accessibility_intel.features :
             accessibility_intel.features[f]
        /\ unified_recommendations # Unset =>
             LET notes == unified_recommendations.accessibility_notes
             IN /\ Len(notes) = 3
                /\ notes[1] \in {NoteAccessible, NoteCallAhead}
                /\ notes[2] = NoteRestroom
                /\ notes[3] = NoteHearingLoop

\* a library place served to the end
C10_Witness ==
    /\ C10_LibraryPlace
    /\ pc = "responded"
    /\ response.status = 200
    /\ response.body.unified_recommendations.accessibility_notes[1] = NoteAccessible
    /\ response.body.accessibility_intelligence.features.elevator
    /\ response.body.accessibility_intelligence.features.braille_signage

\* the name bonus N of the documented accessibility score
C11_NameBonus(place) ==
    IF \E w \in {"new", "modern", "center", "mall"} :
           Contains(Lower(PlaceName(place).v), w)
    THEN 2000 ELSE 0

\* the category bonus C of the documented accessibility score; a place
\* without categories has no label and so no bonus
C11_CategoryBonus(place) ==
    IF ~HasCategories(place) THEN 0
    ELSE IF Contains(PrimaryLabel(place), "library")
            \/ Contains(PrimaryLabel(place), "hospital") THEN 3000
    ELSE IF Contains(PrimaryLabel(place), "restaurant")
            /\ Contains(Lower(PlaceName(place).v), "chain") THEN 2000
    ELSE IF Contains(PrimaryLabel(place), "gym") THEN 1500
    ELSE 0

C11_Documented(place, r) ==
    Max(0, Min(10000, 5000 + C11_NameBonus(place) + C11_CategoryBonus(place) + r))

\* C11: for every place, one with no categories included, the accessibility
\* score before rounding is clamp(5.0 + N + C + r, 0, 10) with N the name
\* bonus, C the category bonus and r a draw in [-1.0, 1.0]: the draw made by
\* the call when it makes one, some value of the range when it makes none.
C11_AccessibilityScoreFormula ==
    Called("analyze_accessibility") =>
        IF HasCategories(place_data)
        THEN frame.accessibility_score = C11_Documented(place_data, frame.r)
        ELSE \E r \in -1000..1000 :
               frame.accessibility_score = C11_Documented(place_data, r)

\* C11 restricted to places with at least one category
C11_FormulaWithCategories ==
    (Called("analyze_accessibility") /\ HasCategories(place_data)) =>
        /\ frame.accessibility_score = C11_Documented(place_data, frame.r)
        /\ accessibility_intel.accessibility_score
             \in Round1(C11_Documented(place_data, frame.r))

\* the four categories the Context analyzer is documented to know
C12_KnownCategories == {"restaurant", "coffee", "gym", "library"}

C12_Known(category) == \E k \in C12_KnownCategories : Contains(category, k)

\* the documented image of a crowd level
C12_WaitTime(crowd_level) ==
    IF crowd_level = "busy" THEN "10-15 minutes"
    ELSE IF crowd_level = "moderate" THEN "5-10 minutes"
    ELSE "no wait"

\* C12: for a primary label matching restaurant, coffee, gym or library the
\* crowd_level is fixed by the hour alone (the call has one possible level
\* at a given hour, so two calls at that hour agree); only the other labels
\* get a choice among quiet, moderate and busy; and estimated_wait_time is
\* the image of the returned crowd_level.
C12_CrowdLevelByHour ==
    Called("analyze_context") =>
        LET levels == EstimateCrowdLevel(frame.primary_category, frame.hour)
        IN /\ realtime_context.crowd_level \in levels
           /\ IF C12_Known(frame.primary_category)
              THEN Cardinality(levels) = 1
              ELSE levels = CrowdLevels
           /\ realtime_context.estimated_wait_time =
                C12_WaitTime(realtime_context.crowd_level)

\* the hours of the source's tables: <<busy hours, moderate hours>>
C12_Table(category) ==
    IF Contains(category, "restaurant")
      THEN <<{12, 13, 18, 19, 20}, {11, 14, 17, 21}>>
    ELSE IF Contains(category, "coffee")
      THEN <<{7, 8, 9, 14, 15}, {10, 11, 16, 17}>>
    ELSE <<{6, 7, 17, 18, 19}, {8, 9, 16, 20}>>

\* C12 restricted to labels matching restaurant, coffee or gym
C12_ThreeCategoriesByHour ==
    (/\ Called("analyze_context")
     /\ \E k \in {"restaurant", "coffee", "gym"} :
            Contains(frame.primary_category, k)) =>
        /\ realtime_context.crowd_level =
             (IF frame.hour \in C12_Table(frame.primary_category)[1] THEN "busy"
              ELSE IF frame.hour \in C12_Table(frame.primary_category)[2]
                THEN "moderate"
              ELSE "quiet")
        /\ realtime_context.estimated_wait_time =
             C12_WaitTime(realtime_context.crowd_level)

\* the label the recommendations are documented to depend on: the
\* lower-cased name of the first category, empty when there is none
C13_Label(place) == IF HasCategories(place) THEN PrimaryLabel(place) ELSE ""

\* the documented recommendations for a features map and a label
C13_Documented(features, label) ==
    LET when(b, seq) == IF b THEN seq ELSE <<>>
    IN [mobility_friendly_areas |->
          when(Get(features, "ramp_access", FALSE), <<"main entrance accessible">>)
          \o when(Get(features, "elevator", FALSE), <<"all floors accessible">>)
          \o when(Get(features, "accessible_restrooms", FALSE),
                  <<"accessible restroom facilities">>),
        sensory_accommodations |->
          when(Contains(label, "library"),
               <<"quiet study areas available",
                 "adjustable lighting in reading areas">>)
          \o when(Get(features, "hearing_loop", FALSE),
                  <<"hearing loop system available">>),
        cognitive_support |->
          when(Contains(label, "library"),
               <<"clear signage and wayfinding",
                 "staff available for assistance">>)
          \o when(Contains(label, "restaurant"), <<"picture menus available">>)]

\* C13: for every input, places without categories and labels matching
\* several keywords included, inclusive_recommendations is the documented
\* function of the returned features and the primary label: a sentence for
\* each true mobility feature, two sensory and two cognitive sentences for
\* a library label, one cognitive sentence for a restaurant label, one
\* more sensory sentence when hearing_loop is true.
C13_RecommendationsByFeaturesAndLabel ==
    Called("analyze_accessibility") =>
        accessibility_intel.inclusive_recommendations =
            C13_Documented(accessibility_intel.features, C13_Label(place_data))

\* C13 restricted to places with a category whose label does not match
\* both library and restaurant
C13_RecommendationsSingleKeyword ==
    (/\ Called("analyze_accessibility")
     /\ HasCategories(place_data)
     /\ ~(Contains(C13_Label(place_data), "library")
          /\ Contains(C13_Label(place_data), "restaurant"))) =>
        accessibility_intel.inclusive_recommendations =
            C13_Documented(accessibility_intel.features, C13_Label(place_data))

\* a label matching both library and restaurant gets the two library
\* sentences only
C13_LibraryRestaurantSeen ==
    /\ Called("analyze_accessibility")
    /\ HasCategories(place_data)
    /\ Contains(C13_Label(place_data), "library")
    /\ Contains(C13_Label(place_data), "restaurant")
    /\ accessibility_intel.inclusive_recommendations.cognitive_support =
         <<"clear signage and wayfinding", "staff available for assistance">>

\* the weight a source contributes when its score key is present and
\* positive, as a sequence of zero or one element
C14_Collected(result, key, weight) ==
    IF key \in DOMAIN result
    THEN (IF result[key] > 0 THEN <<weight>> ELSE <<>>)
    ELSE <<>>

\* the documented weights of a call of the synthesis engine
C14_Weights ==
    C14_Collected(frame.business_intel, "popularity_score", 800)
    \o (IF "confidence_score" \in DOMAIN frame.realtime_context
        THEN C14_Collected(frame.realtime_context, "confidence_score",
                           frame.realtime_context.confidence_score)
        ELSE <<>>)
    \o C14_Collected(frame.accessibility_intel, "accessibility_score", 700)

\* C14: the synthesis confidence before rounding is the arithmetic mean of
\* the collected weights (0.8 for a positive popularity_score, the context
\* confidence_score itself when positive, 0.7 for a positive
\* accessibility_score); with nothing collected, missing keys included, it
\* is 0.5 and no division by zero is made; the reported value is that
\* quotient rounded to two decimals.
C14_ConfidenceIsMean ==
    Called("generate_recommendations") =>
        LET q == frame.confidence_score
            n == Len(C14_Weights)
        IN /\ q.den > 0
           /\ IF n = 0
              THEN q.num = 500 * q.den
              ELSE q.num * n = SeqSum(C14_Weights) * q.den
           /\ unified_recommendations.confidence_score
                \in RoundQuotient2(IF n = 0 THEN 500 ELSE SeqSum(C14_Weights),
                                   IF n = 0 THEN 1 ELSE n)

\* a call where the business result has no popularity_score: the mean of
\* the two remaining weights, 0.95 and 0.7
C14_Witness ==
    /\ Called("generate_recommendations")
    /\ frame.business_intel = EmptyDict
    /\ Len(C14_Weights) = 2
    /\ frame.confidence_score = [num |-> 1650, den |-> 2]
    /\ unified_recommendations.confidence_score \in {820, 830}

\* a call where nothing is collected
C14_DefaultSeen ==
    /\ Called("generate_recommendations")
    /\ Len(C14_Weights) = 0
    /\ unified_recommendations.confidence_score = 500

\* the place analyzed has a first category whose label contains 'library'
\* or 'hospital'
C15_PublicBuilding ==
    IF accessibility_intel = Unset THEN FALSE
    ELSE IF ~HasCategories(place_data) THEN FALSE
    ELSE Contains(PrimaryLabel(place_data), "library")
         \/ Contains(PrimaryLabel(place_data), "hospital")

\* C15: for a place whose primary label contains 'library' or 'hospital'
\* the unrounded accessibility score is at least 7.0 and
\* wheelchair_accessible is true for every name and every draw, so the
\* synthesis made from that result opens accessibility_notes with the
\* wheelchair-accessible sentence and puts the accessible-entrance part in
\* optimal_visit_strategy.
C15_PublicBuildingsAccessible ==
    C15_PublicBuilding =>
        /\ accessibility_intel.wheelchair_accessible
        /\ accessibility_intel.accessibility_score >= 7000
        /\ Called("analyze_accessibility") => frame.accessibility_score >= 7000
        /\ unified_recommendations # Unset =>
             /\ unified_recommendations.accessibility_notes[1] = NoteAccessible
             /\ Contains(unified_recommendations.optimal_visit_strategy,
                         "Accessible entrance available")

\* a hospital with no name bonus served with the lowest draw: the score is
\* exactly 7.0
C15_Witness ==
    /\ C15_PublicBuilding
    /\ Contains(PrimaryLabel(place_data), "hospital")
    /\ pc = "responded"
    /\ response.status = 200
    /\ response.body.accessibility_intelligence.accessibility_score = 7000
    /\ response.body.accessibility_intelligence.wheelchair_accessible
    /\ response.body.unified_recommendations.accessibility_notes[1] = NoteAccessible

\* the endpoint has answered 200
C16_Served ==
    IF pc # "responded" THEN FALSE ELSE response.status = 200

\* C16: in every 200 response the synthesis fallbacks are not taken: the
\* three confidence weights are all collected, so the unified
\* confidence_score is (0.8 + context confidence_score + 0.7) / 3 rounded
\* to two decimals and not the default 0.5; best_visit_times is not empty,
\* so optimal_visit_strategy starts with 'Best visit times:' and is not
\* 'Visit anytime based on your preference'; and the wait-time part is
\* present exactly when crowd_level is busy.
C16_NoSynthesisFallback ==
    C16_Served =>
        LET context == response.body.real_time_context
            unified == response.body.unified_recommendations
            strategy == unified.optimal_visit_strategy
        IN /\ response.body.business_intelligence.popularity_score > 0
           /\ context.confidence_score > 0
           /\ response.body.accessibility_intelligence.accessibility_score > 0
           /\ frame.call = "generate_recommendations"
           /\ frame.confidence_score =
                [num |-> 800 + context.confidence_score + 700, den |-> 3]
           /\ unified.confidence_score
                \in RoundQuotient2(800 + context.confidence_score + 700, 3)
           /\ unified.confidence_score # 500
           /\ Len(context.best_visit_times) > 0
           /\ StartsWith(strategy, "Best visit times: ")
           /\ strategy # "Visit anytime based on your preference"
           /\ Contains(strategy, "Current wait time: ")
                <=> context.crowd_level = "busy"

\* a 200 response for a place with no categories at a busy moment: the
\* default visit times and the wait-time part
C16_Witness ==
    /\ C16_Served
    /\ ~HasCategories(place_data)
    /\ response.body.real_time_context.crowd_level = "busy"
    /\ response.body.real_time_context.confidence_score = 950
    /\ response.body.unified_recommendations.confidence_score = 820
    /\ StartsWith(response.body.unified_recommendations.optimal_visit_strategy,
                  "Best visit times: 10:00-12:00, 14:00-16:00. Current wait time: 10-15 minutes")

====
